---- MODULE Spec2Model ----
(***************************************************************************)
(* Model of generar_tablas.py: a script that builds a table of a header    *)
(* row and 50 random (nombre, edad, ciudad) rows in memory and writes it   *)
(* to personas.csv with csv.writer.                                        *)
(*                                                                         *)
(* Text is modelled as a sequence of one-character strings, so that the    *)
(* CSV file is a sequence of characters that has to be split and parsed    *)
(* again to say anything about its lines and fields.                       *)
(*                                                                         *)
(* The random module is a seeded deterministic generator.  It is modelled  *)
(* as a small additive generator: the seed picks the stride, seed 0 gives  *)
(* the source that always answers with the first element and the minimum   *)
(* age, seed 1 sweeps through every residue.                               *)
(***************************************************************************)
EXTENDS Integers, Sequences, FiniteSets, TLC

VARIABLES
  pc,          \* position of the running script: gen, open, write, close, done, failed
  seed,        \* seed of the random source of this invocation
  rng,         \* state of the random source
  draws,       \* the values the random source has answered in this invocation
  data,        \* the list `data`
  i,           \* number of iterations of the for loop completed
  w,           \* number of rows writerows has handed to the file
  handle,      \* file object of the with block: none, open, closed
  opens,       \* number of times this invocation has opened the output file
  exit,        \* exit status of the process, -1 while it runs
  disk,        \* personas.csv in the working directory
  diskAtStart  \* personas.csv as the invocation found it

vars == <<pc, seed, rng, draws, data, i, w, handle, opens, exit, disk, diskAtStart>>

(***************************************************************************)
(* Bounds and program constants                                            *)
(***************************************************************************)
MaxSeed == 2

NumRows == 50
MinAge == 18
MaxAge == 65

nombres ==
  << <<"J", "u", "a", "n">>,
     <<"A", "n", "a">>,
     <<"L", "u", "i", "s">>,
     <<"M", "a", "r", "i", "a">>,
     <<"P", "e", "d", "r", "o">>,
     <<"L", "u", "c", "i", "a">>,
     <<"C", "a", "r", "l", "o", "s">>,
     <<"S", "o", "f", "i", "a">>,
     <<"D", "i", "e", "g", "o">>,
     <<"E", "l", "e", "n", "a">> >>

ciudades ==
  << <<"M", "a", "d", "r", "i", "d">>,
     <<"B", "a", "r", "c", "e", "l", "o", "n", "a">>,
     <<"V", "a", "l", "e", "n", "c", "i", "a">>,
     <<"S", "e", "v", "i", "l", "l", "a">>,
     <<"B", "i", "l", "b", "a", "o">>,
     <<"Z", "a", "r", "a", "g", "o", "z", "a">>,
     <<"M", "a", "l", "a", "g", "a">>,
     <<"G", "r", "a", "n", "a", "d", "a">>,
     <<"M", "u", "r", "c", "i", "a">>,
     <<"A", "l", "i", "c", "a", "n", "t", "e">> >>

\* Values held by the rows of `data`: a str or an int.
PyStr(chars) == [type |-> "str", val |-> chars]
PyInt(n) == [type |-> "int", val |-> n]

\* Mutation: the first two column labels exchanged.
HeaderRowSwapped ==
  << PyStr(<<"E", "d", "a", "d">>),
     PyStr(<<"N", "o", "m", "b", "r", "e">>),
     PyStr(<<"C", "i", "u", "d", "a", "d">>) >>

HeaderRow ==
  << PyStr(<<"N", "o", "m", "b", "r", "e">>),
     PyStr(<<"E", "d", "a", "d">>),
     PyStr(<<"C", "i", "u", "d", "a", "d">>) >>

(***************************************************************************)
(* The random source                                                       *)
(***************************************************************************)
\* The generator advances by a stride fixed by the seed.
RngNext(s, x) == (x + 27 * s) % 80

\* random._randbelow(n): a value in 0..n-1 taken from the generator output.
RandBelow(x, n) == x % n

\* random.choice(seq) == seq[_randbelow(len(seq))]
Choice(x, seq) == seq[RandBelow(x, Len(seq)) + 1]

\* Mutation: the range is one value too wide.
RandIntWide(x, a, b) == a + RandBelow(x, b - a + 2)

\* Mutation: the upper endpoint is excluded.
RandIntExclusive(x, a, b) == a + RandBelow(x, b - a)

\* random.randint(a, b) == a + _randbelow(b - a + 1)
RandInt(x, a, b) == a + RandBelow(x, b - a + 1)

(***************************************************************************)
(* csv.writer                                                              *)
(***************************************************************************)
CR == "\r"
LF == "\n"
Comma == ","
Quote == "\""

DigitChars == <<"0", "1", "2", "3", "4", "5", "6", "7", "8", "9">>

RECURSIVE NatToStr(_)
NatToStr(n) ==
  IF n < 10 THEN <<DigitChars[n + 1]>>
  ELSE NatToStr(n \div 10) \o <<DigitChars[(n % 10) + 1]>>

\* str() of an int
IntToStr(n) == IF n < 0 THEN <<"-">> \o NatToStr(0 - n) ELSE NatToStr(n)

\* csv.writer turns a field that is not a string into str(field)
FieldText(f) == IF f.type = "int" THEN IntToStr(f.val) ELSE f.val

\* QUOTE_MINIMAL: a field is quoted when it holds the delimiter, the quote
\* character or a character of the line terminator
NeedsQuote(t) == \E k \in 1..Len(t) : t[k] \in {Comma, Quote, CR, LF}

RECURSIVE DoubleQuotes(_)
DoubleQuotes(t) ==
  IF t = <<>> THEN <<>>
  ELSE (IF Head(t) = Quote THEN <<Quote, Quote>> ELSE <<Head(t)>>)
         \o DoubleQuotes(Tail(t))

CsvField(f) ==
  LET t == FieldText(f)
  IN IF NeedsQuote(t) THEN <<Quote>> \o DoubleQuotes(t) \o <<Quote>> ELSE t

RECURSIVE JoinFields(_)
JoinFields(row) ==
  IF Len(row) = 0 THEN <<>>
  ELSE IF Len(row) = 1 THEN CsvField(row[1])
  ELSE CsvField(row[1]) \o <<Comma>> \o JoinFields(Tail(row))

\* writer.writerow(row): the joined fields and the writer's line terminator
CsvLine(row) == JoinFields(row) \o <<CR, LF>>

(***************************************************************************)
(* The script                                                              *)
(***************************************************************************)
NoFile == [exists |-> FALSE, bytes |-> <<>>]

\* State of a fresh process before line 10, with the working directory as found.
Fresh(s, d) ==
  /\ pc = "gen"
  /\ seed = s
  /\ rng = 0
  /\ draws = <<>>
  /\ data = <<HeaderRow>>
  /\ i = 0
  /\ w = 0
  /\ handle = "none"
  /\ opens = 0
  /\ exit = -1
  /\ disk = d
  /\ diskAtStart = d

Init == \E s \in 0..MaxSeed : Fresh(s, NoFile)

\* Mutation: the loop stops one iteration early.
GenerateRowOffByOne ==
  /\ pc = "gen"
  /\ i < NumRows - 1
  /\ LET x1 == rng
         x2 == RngNext(seed, x1)
         x3 == RngNext(seed, x2)
         nombre == Choice(x1, nombres)
         edad == RandInt(x2, MinAge, MaxAge)
         ciudad == Choice(x3, ciudades)
     IN /\ data' = Append(data, <<PyStr(nombre), PyInt(edad), PyStr(ciudad)>>)
        /\ draws' = Append(draws, <<nombre, edad, ciudad>>)
        /\ rng' = RngNext(seed, x3)
  /\ i' = i + 1
  /\ pc' = IF i + 1 = NumRows - 1 THEN "open" ELSE "gen"
  /\ UNCHANGED <<seed, w, handle, opens, exit, disk, diskAtStart>>

\* Mutation: the row is appended as [ciudad, edad, nombre].
GenerateRowSwapped ==
  /\ pc = "gen"
  /\ i < NumRows
  /\ LET x1 == rng
         x2 == RngNext(seed, x1)
         x3 == RngNext(seed, x2)
         nombre == Choice(x1, nombres)
         edad == RandInt(x2, MinAge, MaxAge)
         ciudad == Choice(x3, ciudades)
     IN /\ data' = Append(data, <<PyStr(ciudad), PyInt(edad), PyStr(nombre)>>)
        /\ draws' = Append(draws, <<nombre, edad, ciudad>>)
        /\ rng' = RngNext(seed, x3)
  /\ i' = i + 1
  /\ pc' = IF i + 1 = NumRows THEN "open" ELSE "gen"
  /\ UNCHANGED <<seed, w, handle, opens, exit, disk, diskAtStart>>

\* One iteration of the for loop: three draws and an append.
GenerateRow ==
  /\ pc = "gen"
  /\ i < NumRows
  /\ LET x1 == rng
         x2 == RngNext(seed, x1)
         x3 == RngNext(seed, x2)
         nombre == Choice(x1, nombres)
         edad == RandInt(x2, MinAge, MaxAge)
         ciudad == Choice(x3, ciudades)
     IN /\ data' = Append(data, <<PyStr(nombre), PyInt(edad), PyStr(ciudad)>>)
        /\ draws' = Append(draws, <<nombre, edad, ciudad>>)
        /\ rng' = RngNext(seed, x3)
  /\ i' = i + 1
  /\ pc' = IF i + 1 = NumRows THEN "open" ELSE "gen"
  /\ UNCHANGED <<seed, w, handle, opens, exit, disk, diskAtStart>>

\* Mutation: the file is opened for appending, its content is kept.
OpenOkAppend ==
  /\ pc = "open"
  /\ disk' = [exists |-> TRUE, bytes |-> disk.bytes]
  /\ handle' = "open"
  /\ opens' = opens + 1
  /\ pc' = "write"
  /\ UNCHANGED <<seed, rng, draws, data, i, w, exit, diskAtStart>>

\* open(filename, mode='w', newline='') succeeds: the file is created or truncated.
OpenOk ==
  /\ pc = "open"
  /\ disk' = [exists |-> TRUE, bytes |-> <<>>]
  /\ handle' = "open"
  /\ opens' = opens + 1
  /\ pc' = "write"
  /\ UNCHANGED <<seed, rng, draws, data, i, w, exit, diskAtStart>>

\* open raises OSError: nothing is created, the exception ends the process.
OpenFail ==
  /\ pc = "open"
  /\ pc' = "failed"
  /\ exit' = 1
  /\ UNCHANGED <<seed, rng, draws, data, i, w, handle, opens, disk, diskAtStart>>

\* writer.writerows(data), one row at a time.
WriteRow ==
  /\ pc = "write"
  /\ w < Len(data)
  /\ disk' = [disk EXCEPT !.bytes = @ \o CsvLine(data[w + 1])]
  /\ w' = w + 1
  /\ pc' = IF w + 1 = Len(data) THEN "close" ELSE "write"
  /\ UNCHANGED <<seed, rng, draws, data, i, handle, opens, exit, diskAtStart>>

\* Mutation: the error is swallowed and the run ends as a success.
WriteFailSwallowed ==
  /\ pc = "write"
  /\ handle' = "closed"
  /\ pc' = "done"
  /\ exit' = 0
  /\ UNCHANGED <<seed, rng, draws, data, i, w, opens, disk, diskAtStart>>

\* Mutation: the write is retried by opening the file again.
WriteFailRetry ==
  /\ pc = "write"
  /\ handle' = "closed"
  /\ pc' = "open"
  /\ UNCHANGED <<seed, rng, draws, data, i, w, opens, exit, disk, diskAtStart>>

\* Mutation: the file is not closed when the write raises.
WriteFailLeak ==
  /\ pc = "write"
  /\ pc' = "failed"
  /\ exit' = 1
  /\ UNCHANGED <<seed, rng, draws, data, i, w, handle, opens, disk, diskAtStart>>

\* A write raises OSError: the with block closes the file and the exception
\* ends the process.
WriteFail ==
  /\ pc = "write"
  /\ handle' = "closed"
  /\ pc' = "failed"
  /\ exit' = 1
  /\ UNCHANGED <<seed, rng, draws, data, i, w, opens, disk, diskAtStart>>

\* End of the with block: the file is closed and the script ends.
CloseOk ==
  /\ pc = "close"
  /\ handle' = "closed"
  /\ pc' = "done"
  /\ exit' = 0
  /\ UNCHANGED <<seed, rng, draws, data, i, w, opens, disk, diskAtStart>>

\* The flush of close() raises OSError: the file is closed all the same.
CloseFail ==
  /\ pc = "close"
  /\ handle' = "closed"
  /\ pc' = "failed"
  /\ exit' = 1
  /\ UNCHANGED <<seed, rng, draws, data, i, w, opens, disk, diskAtStart>>

\* The script is run again in the same working directory.
Invoke ==
  /\ pc \in {"done", "failed"}
  /\ \E s \in 0..MaxSeed :
       /\ pc' = "gen"
       /\ seed' = s
       /\ rng' = 0
       /\ draws' = <<>>
       /\ data' = <<HeaderRow>>
       /\ i' = 0
       /\ w' = 0
       /\ handle' = "none"
       /\ opens' = 0
       /\ exit' = -1
       /\ diskAtStart' = disk
       /\ UNCHANGED disk

Step ==
  \/ GenerateRow
  \/ OpenOk
  \/ OpenFail
  \/ WriteRow
  \/ WriteFail
  \/ CloseOk
  \/ CloseFail

Next == Step \/ Invoke

Spec == Init /\ [][Next]_vars

\* A running script always takes its next step.
FairSpec == Spec /\ WF_vars(Step)

(***************************************************************************)
(* Reading the file back: lines, fields, integers                          *)
(***************************************************************************)
KthSmallest(S, k) == CHOOSE p \in S : Cardinality({q \in S : q < p}) = k - 1

\* Positions where a line terminator starts.
TermPos(b) == {k \in 1..(Len(b) - 1) : b[k] = CR /\ b[k + 1] = LF}

LineCount(b) == Cardinality(TermPos(b))

\* Nothing follows the last line terminator.
EndsClean(b) == b = <<>> \/ (Len(b) - 1) \in TermPos(b)

\* The k-th line of b, without its terminator.
Line(b, k) ==
  LET first == IF k = 1 THEN 1 ELSE KthSmallest(TermPos(b), k - 1) + 2
      last == KthSmallest(TermPos(b), k) - 1
  IN SubSeq(b, first, last)

CommaPos(l) == {k \in 1..Len(l) : l[k] = Comma}

FieldCount(l) == Cardinality(CommaPos(l)) + 1

\* The k-th comma-separated field of a line.
Field(l, k) ==
  LET first == IF k = 1 THEN 1 ELSE KthSmallest(CommaPos(l), k - 1) + 1
      last == IF k = FieldCount(l) THEN Len(l) ELSE KthSmallest(CommaPos(l), k) - 1
  IN SubSeq(l, first, last)

IsDigits(t) == Len(t) > 0 /\ \A k \in 1..Len(t) : \E d \in 1..10 : DigitChars[d] = t[k]

DigitVal(c) == (CHOOSE d \in 1..10 : DigitChars[d] = c) - 1

RECURSIVE ParseNat(_)
ParseNat(t) ==
  IF Len(t) = 1 THEN DigitVal(t[1])
  ELSE 10 * ParseNat(SubSeq(t, 1, Len(t) - 1)) + DigitVal(t[Len(t)])

ToSet(seq) == {seq[k] : k \in 1..Len(seq)}

Terminal == pc \in {"done", "failed"}

Succeeded == pc = "done"

\* The CSV text of a whole table, as writerows produces it.
RECURSIVE CsvText(_)
CsvText(rows) ==
  IF rows = <<>> THEN <<>> ELSE CsvLine(Head(rows)) \o CsvText(Tail(rows))

\* The table that a sequence of answers of the random source leads to.
TableOf(answers) ==
  <<HeaderRow>> \o
    [k \in 1..Len(answers) |->
       <<PyStr(answers[k][1]), PyInt(answers[k][2]), PyStr(answers[k][3])>>]

AgesOf(rows) == {rows[k][2].val : k \in 2..Len(rows)}

\* A seed whose stride walks the age draws through consecutive generator values.
Sweeps(s) == RngNext(s, RngNext(s, RngNext(s, 0))) = 1

(***************************************************************************)
(* Properties                                                              *)
(***************************************************************************)

\* C1: after a successful run personas.csv holds exactly 51 lines, the header
\* line first, then exactly 50 data rows, and nothing after the last of them.
FileHas51Lines ==
  Succeeded =>
    /\ disk.exists
    /\ LineCount(disk.bytes) = 51
    /\ EndsClean(disk.bytes)
    /\ Line(disk.bytes, 1) = JoinFields(HeaderRow)
    /\ Cardinality({k \in 2..LineCount(disk.bytes) :
                      /\ FieldCount(Line(disk.bytes, k)) = 3
                      /\ IsDigits(Field(Line(disk.bytes, k), 2))}) = 50

FileHas51LinesWitness ==
  /\ Succeeded
  /\ LineCount(disk.bytes) = 51
  /\ Line(disk.bytes, 2) # Line(disk.bytes, 3)

DataRowsWellFormed ==
  Succeeded =>
    \A k \in 2..51 :
      LET l == Line(disk.bytes, k)
      IN /\ FieldCount(l) = 3
         /\ Field(l, 1) \in ToSet(nombres)
         /\ IsDigits(Field(l, 2))
         /\ ParseNat(Field(l, 2)) \in 18..65
         /\ Field(l, 3) \in ToSet(ciudades)

DataRowsWitness ==
  /\ Succeeded
  /\ \E k \in 2..51 : ParseNat(Field(Line(disk.bytes, k), 2)) = 65
  /\ \E k \in 2..51 : Field(Line(disk.bytes, k), 1) = nombres[10]
  /\ \E k \in 2..51 : Field(Line(disk.bytes, k), 3) = ciudades[10]

\* C4: the bytes of the file written by a successful run are a function of the
\* sequence of answers of the random source alone, whatever the file held
\* before: two runs with the same answers leave byte-identical files.
OutputDeterminedByDraws ==
  Succeeded => (disk.exists /\ disk.bytes = CsvText(TableOf(draws)))

DeterminismWitness ==
  /\ Succeeded
  /\ Len(draws) = 50
  /\ diskAtStart.exists
  /\ LineCount(diskAtStart.bytes) = 51
  /\ diskAtStart.bytes # disk.bytes

\* C5: when the random source always answers with the first element of each
\* list and the minimum age, the line right after the header is exactly
\* Juan,18,Madrid.
AlwaysFirst ==
  /\ Len(draws) = 50
  /\ \A k \in 1..Len(draws) : draws[k] = <<nombres[1], 18, ciudades[1]>>

FirstRowJuan18Madrid ==
  (Succeeded /\ AlwaysFirst) =>
    Line(disk.bytes, 2) =
      <<"J", "u", "a", "n", ",", "1", "8", ",", "M", "a", "d", "r", "i", "d">>

FirstRowWitness ==
  /\ Succeeded
  /\ AlwaysFirst
  /\ LineCount(disk.bytes) = 51

\* C6: a successful run overwrites personas.csv whatever it held before
\* (absent, empty, or an earlier output): afterwards the file holds only this
\* run's header and 50 rows, 51 lines with the same header, and no row of the
\* earlier content.
RunOverwritesFile ==
  Succeeded =>
    /\ disk.exists
    /\ LineCount(disk.bytes) = 51
    /\ EndsClean(disk.bytes)
    /\ Len(data) = 51
    /\ \A k \in 1..51 : Line(disk.bytes, k) = JoinFields(data[k])
    /\ (diskAtStart.exists /\ LineCount(diskAtStart.bytes) >= 1) =>
          Line(disk.bytes, 1) = Line(diskAtStart.bytes, 1)

OverwriteWitness ==
  /\ Succeeded
  /\ diskAtStart.exists
  /\ LineCount(diskAtStart.bytes) = 51
  /\ Line(diskAtStart.bytes, 1) = Line(disk.bytes, 1)
  /\ Line(diskAtStart.bytes, 2) # Line(disk.bytes, 2)

\* C7: a run whose file cannot be opened or written ends failed with a
\* non-zero exit status, is not retried, never ends in success with fewer
\* than 51 lines on disk, and when the open fails the directory is left as it
\* was: no file is created.
WriteFailureIsAnError ==
  /\ pc = "failed" => (exit # 0 /\ exit # -1)
  /\ exit = 0 => (Succeeded /\ w = 51 /\ LineCount(disk.bytes) = 51)
  /\ Succeeded => exit = 0
  /\ opens <= 1
  /\ (pc = "failed" /\ opens = 0) => disk = diskAtStart
  /\ (pc = "failed" /\ opens = 0 /\ ~diskAtStart.exists) => ~disk.exists

OpenFailureWitness ==
  /\ pc = "failed"
  /\ opens = 0
  /\ ~disk.exists
  /\ exit = 1

\* C8: every invocation terminates; all 50 records are in the table before the
\* file is opened, the file is opened at most once (exactly once by a run that
\* succeeds), and the table does not change once the file was opened.
GenerateThenWriteOnce ==
  /\ [](opens >= 1 => (i = 50 /\ Len(data) = 51))
  /\ [](opens <= 1)
  /\ [](Succeeded => opens = 1)
  /\ [][(opens >= 1 /\ opens' >= 1) => data' = data]_vars
  /\ [][pc = "gen" => pc' \in {"gen", "open"}]_vars
  /\ (~Terminal ~> Terminal)

GenerateThenWriteWitness ==
  /\ Succeeded
  /\ opens = 1
  /\ Len(data) = 51
  /\ w = 51

\* C9: in every terminal state, after a success as well as after an I/O error
\* raised once the file was open, the file handle is not left open.
HandleReleased == Terminal => handle # "open"

HandleReleasedWitness ==
  /\ pc = "failed"
  /\ opens = 1
  /\ w < 51
  /\ handle = "closed"

\* C10: the age of a record lies in [18,65], both endpoints included: 48
\* values, none outside the range ever appears, and a source that sweeps the
\* generator's values makes every one of them appear.
AgeRangeClosed ==
  /\ AgesOf(data) \subseteq 18..65
  /\ Cardinality(18..65) = 48
  /\ (Sweeps(seed) /\ i = 50) => AgesOf(data) = 18..65

AgeRangeWitness ==
  /\ i = 50
  /\ 18 \in AgesOf(data)
  /\ 65 \in AgesOf(data)
  /\ Cardinality(AgesOf(data)) = 48
====
